---- MODULE Spec2Model ----
(***************************************************************************)
(* Model of utp.py: the table generator that lists the capacitance of      *)
(* unshielded twisted pairs for every (material, conductor, thickness) of  *)
(* its static tables with the General Cable and the Howard Johnson         *)
(* formulas.                                                               *)
(*                                                                         *)
(* Numbers.  utp.py computes in binary floating point; the model computes  *)
(* in integer fixed point, every operation rounding down:                  *)
(*   lengths (thickness, diameter)      thousandths of an inch             *)
(*   STRANDING_FACTOR                   thousandths                        *)
(*   dielectric constant                hundredths                         *)
(*   MM_PER_FT                          tenths of a millimetre             *)
(*   capacitance, capacitance2          1e-4 pf/ft                         *)
(*   capacitance_mm, capacitance2_mm    1e-6 pf/mm                         *)
(*   logarithms                         1/Scale                            *)
(* math.log10 and math.log are computed as a binary logarithm (shift and   *)
(* square, 14 fraction bits) times log10(2) resp. ln(2).  All             *)
(* intermediate products stay below 2^31.                                  *)
(***************************************************************************)
EXTENDS Integers, Sequences, FiniteSets, TLC

VARIABLES
    STRANDING_FACTOR,            \* utp.py:54
    DIELECTRIC_LIST,             \* utp.py:60-78
    CONDUCTOR_LIST,              \* utp.py:80-87
    INSULATION_THICKNESS_LIST,   \* utp.py:89-103
    MM_PER_FT,                   \* utp.py:106
    material,                    \* position of the outer for loop in DIELECTRIC_LIST
    conductor,                   \* position of the middle for loop in CONDUCTOR_LIST
    thickness,                   \* position of the inner for loop in INSULATION_THICKNESS_LIST
    capacitance,                 \* utp.py:112 (0 while not yet bound)
    capacitance_mm,              \* utp.py:115
    capacitance2,                \* utp.py:117
    capacitance2_mm,             \* utp.py:120
    out,                         \* the lines printed to standard output so far
    pc,                          \* "loop", "exit", "sysexit", "done", "error"
    exit_code,                   \* utp.py:127 (NoCode while not yet bound)
    status,                      \* the exit status of the process (NoCode while running)
    error,                       \* the uncaught exception that ended the run, or "none"
    argv,                        \* the command line arguments after the script name
    run,                         \* how many times the command has been started
    prev_out                     \* the complete output of the previous run

tables == <<STRANDING_FACTOR, DIELECTRIC_LIST, CONDUCTOR_LIST,
            INSULATION_THICKNESS_LIST, MM_PER_FT>>
locals == <<capacitance, capacitance_mm, capacitance2, capacitance2_mm>>
position == <<material, conductor, thickness>>
vars == <<tables, position, locals, out, pc, exit_code, status, error,
          argv, run, prev_out>>

----------------------------------------------------------------------------
(* The static tables of the source.                                        *)

\* utp.py:53-58: the stranding factors the source offers, for 7, 19, 37,
\* 61, 91 strands and for 1 strand; the one not commented out is 0.939.
StrandingFactors == {939, 970, 980, 985, 988, 1000}

ActiveStrandingFactor == 939

\* The table with one material name entered twice.
DielectricTableRepeatedName == <<
    <<"ECTFE/Halar", 260>>,
    <<"PFA/Teflon", 215>>,
    <<"PVC", 500>>,
    <<"PVC(Semi-rigid)", 360>>,
    <<"PVDF/Kynar/SOLEF", 770>>,
    <<"Polyethylene", 229>>,
    <<"Polypropylene", 225>>,
    <<"Polyurethane", 650>>,
    <<"Rubber(butyl)", 400>>,
    <<"Rubber(natural)", 500>>,
    <<"Rubber(SBR)", 400>>,
    <<"Rubber(silicone)", 310>>,
    <<"Teflon", 210>>,
    <<"TPE", 500>>,
    <<"Teflon", 210>>,
    <<"Tefzel", 260>> >>

DielectricTable == <<
    <<"ECTFE/Halar", 260>>,
    <<"PFA/Teflon", 215>>,
    <<"PVC", 500>>,
    <<"PVC(Semi-rigid)", 360>>,
    <<"PVDF/Kynar/SOLEF", 770>>,
    <<"Polyethylene", 229>>,
    <<"Polypropylene", 225>>,
    <<"Polyurethane", 650>>,
    <<"Rubber(butyl)", 400>>,
    <<"Rubber(natural)", 500>>,
    <<"Rubber(SBR)", 400>>,
    <<"Rubber(silicone)", 310>>,
    <<"TFE/Teflon", 210>>,
    <<"TPE", 500>>,
    <<"Teflon", 210>>,
    <<"Tefzel", 260>> >>

ConductorTable == <<
    <<"AWG30", "7/38", 12>>,
    <<"AWG28", "7/36", 15>>,
    <<"AWG26", "7/34", 19>>,
    <<"AWG24", "7/32", 24>>,
    <<"AWG22", "7/30", 30>> >>

InsulationThicknessTable == <<6, 10, 11, 12, 15, 17, 18, 19, 30, 32, 45, 60>>

\* utp.py:106: 25.4 * 12.0, in tenths of a millimetre
MmPerFt == 254 * 12

\* No exit code bound yet / the process is still running.
NoCode == -1

----------------------------------------------------------------------------
(* Fixed-point arithmetic.                                                 *)

\* One in the fixed point of the logarithms: 14 fraction bits.
Scale == 2 ^ 14

\* The helpers below are functions, so that each argument is evaluated
\* once, where it is applied.

Abs(x) == IF x < 0 THEN 0 - x ELSE x

\* a * b / c rounded down, for a, b >= 0 and c > 0, without forming a * b.
MulDivPos[a \in Int, b \in Int, c \in Int] ==
    (a \div c) * b + ((a % c) * b) \div c

\* a * b / c rounded toward zero, for b >= 0 and c # 0.
Quot[a \in Int, b \in Int, c \in Int] ==
    IF (a < 0) = (c < 0)
    THEN MulDivPos[Abs(a), b, Abs(c)]
    ELSE 0 - MulDivPos[Abs(a), b, Abs(c)]

\* x * 2^e with x brought into [Scale, 2 * Scale); an x that underflowed to
\* 0 saturates at 2^-14.
Normalise[x \in Int, e \in Int] ==
    IF x <= 0 THEN <<Scale, 0 - 14>>
    ELSE IF x >= 2 * Scale THEN Normalise[x \div 2, e + 1]
    ELSE IF x < Scale THEN Normalise[2 * x, e - 1]
    ELSE <<x, e>>

\* The n fraction bits of log2(x / Scale) for x in [Scale, 2 * Scale), by
\* repeated squaring; f holds the bits found so far.
Fraction[x \in Int, f \in Int, n \in Int] ==
    IF n = 0 THEN f
    ELSE LET y == (x * x) \div Scale
         IN  IF y >= 2 * Scale
             THEN Fraction[y \div 2, 2 * f + 1, n - 1]
             ELSE Fraction[y, 2 * f, n - 1]

\* Exponent and fraction joined: xe[2] + fraction bits of xe[1].
Log2Of[xe \in Seq(Int)] == xe[2] * Scale + Fraction[xe[1], 0, 14]

\* log2(num / den) in 1/Scale, for num / den > 0.
Log2[num \in Int, den \in Int] == Log2Of[Normalise[Quot[num, Scale, den], 0]]

\* math.log10(num / den): log2 times log10(2) = 643/2136.
Log10[num \in Int, den \in Int] == Quot[Log2[num, den], 643, 2136]

\* math.log(num / den): log2 times ln(2) = 1143/1649.
Ln[num \in Int, den \in Int] == Quot[Log2[num, den], 1143, 1649]

----------------------------------------------------------------------------
(* The loop body, utp.py:111-124.                                          *)

\* utp.py:113-114: numerator and denominator of the General Cable
\* logarithm's argument, (1.3 * (2.0 * t + D)) / (k * D), in 1e-6 inch.
GeneralCableArg(D, t, k) == <<1300 * (2 * t + D), k * D>>

\* utp.py:118-119: the same for Howard Johnson, (2 * (2.0 * t + D)) / (k * D).
HowardJohnsonArg(D, t, k) == <<2000 * (2 * t + D), k * D>>

\* What Python raises on  numerator / math.log(arg[1] / arg[2]):  a float
\* division by zero raises ZeroDivisionError, math.log and math.log10 of a
\* value <= 0 raise ValueError, and the logarithm of 1.0 is 0.0.
Raises(arg) ==
    IF arg[2] = 0 THEN "ZeroDivisionError"
    ELSE IF arg[1] = 0 \/ (arg[1] < 0) # (arg[2] < 0) THEN "ValueError"
    ELSE IF arg[1] = arg[2] THEN "ZeroDivisionError"
    ELSE "none"

\* The natural logarithm where the General Cable formula has the base 10 one.
GeneralCableNaturalLog(d, D, t, k) ==
    LET arg == GeneralCableArg(D, t, k)
    IN  Quot[22 * d * 10, Scale, Ln[arg[1], arg[2]]]

\* The argument of the logarithm upside down.
GeneralCableInvertedArg(d, D, t, k) ==
    LET arg == GeneralCableArg(D, t, k)
    IN  Quot[22 * d * 10, Scale, Log10[arg[2], arg[1]]]

\* The stranding factor left out of the denominator.
GeneralCableWithoutStranding(d, D, t, k) ==
    LET arg == GeneralCableArg(D, t, 1000)
    IN  Quot[22 * d * 10, Scale, Log10[arg[1], arg[2]]]

\* utp.py:112-114, in 1e-4 pf/ft
GeneralCable(d, D, t, k) ==
    LET arg == GeneralCableArg(D, t, k)
    IN  Quot[22 * d * 10, Scale, Log10[arg[1], arg[2]]]

\* utp.py:117-119, in 1e-4 pf/ft: the quotient first, then times d
HowardJohnson(d, D, t, k) ==
    LET arg == HowardJohnsonArg(D, t, k)
    IN  Quot[Quot[12 * 70650, Scale, Ln[arg[1], arg[2]]], d, 1000]

\* Divides by the millimetres per inch only.
PerMmOfAnInch(cap, mmPerFt) == Quot[cap, 1000 * 12, mmPerFt]

\* utp.py:115, 120: 1e-4 pf/ft over tenths of a millimetre, in 1e-6 pf/mm
PerMm(cap, mmPerFt) == Quot[cap, 1000, mmPerFt]

\* A %.nf conversion: v in units u to the nearest whole unit.
Round(v, u) == (v + u \div 2) \div u

\* utp.py:121-124: the fields of one printed line.  %1.3f prints whole
\* thousandths of an inch, %5.2f hundredths of a pf/ft, %5.4f 1e-4 pf/mm.
Line(c, t, m, cap, capMm, cap2, cap2Mm) ==
    [gauge |-> c[1], thick |-> t, name |-> m[1],
     cap_ft |-> Round(cap, 100), cap_mm |-> Round(capMm, 100),
     cap2_ft |-> Round(cap2, 100), cap2_mm |-> Round(cap2Mm, 100)]

\* A stranding factor taken from the command line when one is given.
KFromArgv == IF argv # <<>> THEN 1000 ELSE STRANDING_FACTOR

\* The stranding factor the formulas read, utp.py:114, 119.
K == STRANDING_FACTOR

\* The thickness loop stops one entry short.
AdvanceSkipsLastThickness(mi, ci, ti, nm, nc, nt) ==
    IF ti < nt - 1 THEN [m |-> mi, c |-> ci, t |-> ti + 1, pc |-> "loop"]
    ELSE IF ci < nc THEN [m |-> mi, c |-> ci + 1, t |-> 1, pc |-> "loop"]
    ELSE IF mi < nm THEN [m |-> mi + 1, c |-> 1, t |-> 1, pc |-> "loop"]
    ELSE [m |-> mi, c |-> ci, t |-> ti, pc |-> "exit"]

\* The conductor loop nested inside the thickness loop.
AdvanceConductorInnermost(mi, ci, ti, nm, nc, nt) ==
    IF ci < nc THEN [m |-> mi, c |-> ci + 1, t |-> ti, pc |-> "loop"]
    ELSE IF ti < nt THEN [m |-> mi, c |-> 1, t |-> ti + 1, pc |-> "loop"]
    ELSE IF mi < nm THEN [m |-> mi + 1, c |-> 1, t |-> 1, pc |-> "loop"]
    ELSE [m |-> mi, c |-> ci, t |-> ti, pc |-> "exit"]

\* utp.py:108-110: the three for loops step to the next combination, the
\* thickness loop innermost; after the last one the loops are left.
Advance(mi, ci, ti, nm, nc, nt) ==
    IF ti < nt THEN [m |-> mi, c |-> ci, t |-> ti + 1, pc |-> "loop"]
    ELSE IF ci < nc THEN [m |-> mi, c |-> ci + 1, t |-> 1, pc |-> "loop"]
    ELSE IF mi < nm THEN [m |-> mi + 1, c |-> 1, t |-> 1, pc |-> "loop"]
    ELSE [m |-> mi, c |-> ci, t |-> ti, pc |-> "exit"]

\* The exception caught and dropped: the loops are left and the run goes
\* on to its exit code.
RaiseSwallowed(e) ==
    /\ pc' = "exit"
    /\ error' = e
    /\ UNCHANGED <<position, out, exit_code, status>>

\* An uncaught exception: the traceback goes to standard error and the
\* interpreter ends the process with status 1.
Raise(e) ==
    /\ pc' = "error"
    /\ error' = e
    /\ status' = 1
    /\ UNCHANGED <<position, out, exit_code>>

LoopBody ==
    /\ pc = "loop"
    /\ LET m == DIELECTRIC_LIST[material]
           c == CONDUCTOR_LIST[conductor]
           t == INSULATION_THICKNESS_LIST[thickness]
           e1 == Raises(GeneralCableArg(c[3], t, K))
           e2 == Raises(HowardJohnsonArg(c[3], t, K))
           cap == GeneralCable(m[2], c[3], t, K)
           capMm == PerMm(cap, MM_PER_FT)
           cap2 == HowardJohnson(m[2], c[3], t, K)
           cap2Mm == PerMm(cap2, MM_PER_FT)
           nxt == Advance(material, conductor, thickness,
                          Len(DIELECTRIC_LIST), Len(CONDUCTOR_LIST),
                          Len(INSULATION_THICKNESS_LIST))
       IN  IF e1 # "none"
           THEN Raise(e1) /\ UNCHANGED locals
           ELSE IF e2 # "none"
           THEN /\ Raise(e2)
                /\ capacitance' = cap
                /\ capacitance_mm' = capMm
                /\ UNCHANGED <<capacitance2, capacitance2_mm>>
           ELSE /\ capacitance' = cap
                /\ capacitance_mm' = capMm
                /\ capacitance2' = cap2
                /\ capacitance2_mm' = cap2Mm
                /\ out' = Append(out, Line(c, t, m, cap, capMm, cap2, cap2Mm))
                /\ material' = nxt.m
                /\ conductor' = nxt.c
                /\ thickness' = nxt.t
                /\ pc' = nxt.pc
                /\ UNCHANGED <<exit_code, status, error>>
    /\ UNCHANGED <<tables, argv, run, prev_out>>

\* A failure exit code.
ExitCodeFailure == 2 - 1

\* utp.py:127
ExitCode == 0

SetExitCode ==
    /\ pc = "exit"
    /\ exit_code' = ExitCode
    /\ pc' = "sysexit"
    /\ UNCHANGED <<tables, position, locals, out, status, error, argv, run, prev_out>>

\* utp.py:130
SysExit ==
    /\ pc = "sysexit"
    /\ status' = exit_code
    /\ pc' = "done"
    /\ UNCHANGED <<tables, position, locals, out, exit_code, error, argv, run, prev_out>>

----------------------------------------------------------------------------
(* The run of utp.py as it stands.                                         *)

\* The state when the for statement of utp.py:108 is reached.
Start(k, dl, cl, tl) ==
    /\ STRANDING_FACTOR = k
    /\ DIELECTRIC_LIST = dl
    /\ CONDUCTOR_LIST = cl
    /\ INSULATION_THICKNESS_LIST = tl
    /\ MM_PER_FT = MmPerFt
    /\ material = 1
    /\ conductor = 1
    /\ thickness = 1
    /\ capacitance = 0
    /\ capacitance_mm = 0
    /\ capacitance2 = 0
    /\ capacitance2_mm = 0
    /\ out = <<>>
    /\ pc = IF Len(dl) > 0 /\ Len(cl) > 0 /\ Len(tl) > 0 THEN "loop" ELSE "exit"
    /\ exit_code = NoCode
    /\ status = NoCode
    /\ error = "none"
    /\ run = 1
    /\ prev_out = <<>>

Init ==
    /\ Start(ActiveStrandingFactor, DielectricTable, ConductorTable,
             InsulationThicknessTable)
    /\ argv = <<>>

Next == LoopBody \/ SetExitCode \/ SysExit

Spec == Init /\ [][Next]_vars

\* The program runs to its end: a sequential process takes its next step.
FairSpec == Spec /\ WF_vars(Next)

----------------------------------------------------------------------------
(* The run with each of the stranding factors the source offers.           *)

InitK ==
    /\ \E k \in StrandingFactors :
           Start(k, DielectricTable, ConductorTable, InsulationThicknessTable)
    /\ argv = <<>>

SpecK == InitK /\ [][Next]_vars

----------------------------------------------------------------------------
(* The run after an edit of the tables: the second thickness, the second   *)
(* conductor's diameter and the stranding factor replaced, two materials   *)
(* kept.                                                                   *)

EditedThicknesses == {0 - 12, 0 - 6, 0 - 3, 0, 10}
EditedDiameters == {0 - 30, 0, 15}
EditedFactors == {939, 1000, 1300, 2000}

InitEdited ==
    /\ \E k \in EditedFactors, D \in EditedDiameters, t \in EditedThicknesses :
           Start(k, SubSeq(DielectricTable, 1, 2),
                 [ConductorTable EXCEPT ![2] = <<"AWG28", "7/36", D>>],
                 [InsulationThicknessTable EXCEPT ![2] = t])
    /\ argv = <<>>

SpecEdited == InitEdited /\ [][Next]_vars

----------------------------------------------------------------------------
(* The command started again after it has ended, utp.py:21-24; what the    *)
(* command line holds is up to the caller.                                 *)

MaxRuns == 2

ArgvChoices == {<<>>, <<"-v">>}

Rerun ==
    /\ pc \in {"done", "error"}
    /\ run < MaxRuns
    /\ run' = run + 1
    /\ prev_out' = out
    /\ argv' \in ArgvChoices
    /\ out' = <<>>
    /\ material' = 1
    /\ conductor' = 1
    /\ thickness' = 1
    /\ capacitance' = 0
    /\ capacitance_mm' = 0
    /\ capacitance2' = 0
    /\ capacitance2_mm' = 0
    /\ pc' = "loop"
    /\ exit_code' = NoCode
    /\ status' = NoCode
    /\ error' = "none"
    /\ UNCHANGED tables

InitRerun ==
    /\ Start(ActiveStrandingFactor, DielectricTable, ConductorTable,
             InsulationThicknessTable)
    /\ argv \in ArgvChoices

NextRerun == LoopBody \/ SetExitCode \/ SysExit \/ Rerun

SpecRerun == InitRerun /\ [][NextRerun]_vars

----------------------------------------------------------------------------
(* Properties of the run.                                                  *)

\* The table entries a printed line names.
DielectricOf(name) ==
    DIELECTRIC_LIST[CHOOSE i \in 1..Len(DIELECTRIC_LIST) :
                        DIELECTRIC_LIST[i][1] = name][2]

DiameterOf(gauge) ==
    CONDUCTOR_LIST[CHOOSE i \in 1..Len(CONDUCTOR_LIST) :
                       CONDUCTOR_LIST[i][1] = gauge][3]

\* The lines a state is examined for: while the loops run, the line just
\* printed; once the run has ended, every line.
Examined == IF pc = "loop" THEN {i \in 1..Len(out) : i = Len(out)} ELSE 1..Len(out)

\* C1: on every printed line the two pf/ft values are those of the line's
\* own material, conductor and thickness and the active stranding factor:
\* (2.2 d) / log10((1.3 (2t + D)) / (k D)) for General Cable and
\* ((12 * 0.7065) / ln((2 (2t + D)) / (k D))) d for Howard Johnson, each
\* printed to two decimals.
C1_FormulasOfTheTriple ==
    \A i \in Examined :
        LET d == DielectricOf(out[i].name)
            D == DiameterOf(out[i].gauge)
            t == out[i].thick
            k == STRANDING_FACTOR
        IN  /\ out[i].cap_ft =
                   Round(Quot[22 * d * 10, Scale,
                              Log10[1300 * (2 * t + D), k * D]], 100)
            /\ out[i].cap2_ft =
                   Round(Quot[Quot[12 * 70650, Scale,
                                   Ln[2000 * (2 * t + D), k * D]], d, 1000], 100)

\* The scenario of the specification, ECTFE/Halar on AWG30 at 0.006 inch,
\* is printed with 12.93 pf/ft, and the last line of the run with 9.32 pf/ft
\* for Howard Johnson.
C1_Witness ==
    /\ Len(out) = 16 * 5 * 12
    /\ out[1].name = "ECTFE/Halar" /\ out[1].gauge = "AWG30"
    /\ out[1].thick = 6 /\ out[1].cap_ft = 1293
    /\ out[Len(out)].cap2_ft = 932

\* The lines printed for the combination (mi, ci, ti) of the tables.
LinesOf(mi, ci, ti) ==
    {i \in 1..Len(out) :
        /\ out[i].name = DIELECTRIC_LIST[mi][1]
        /\ out[i].gauge = CONDUCTOR_LIST[ci][1]
        /\ out[i].thick = INSULATION_THICKNESS_LIST[ti]}

\* C2: when the run has ended, 16 * 5 * 12 = 960 lines have been printed,
\* exactly one for each (material, conductor, thickness) of the tables.
C2_OneLinePerTriple ==
    status # NoCode =>
        /\ Len(out) = 16 * 5 * 12
        /\ Len(out) = 960
        /\ \A mi \in 1..Len(DIELECTRIC_LIST), ci \in 1..Len(CONDUCTOR_LIST),
              ti \in 1..Len(INSULATION_THICKNESS_LIST) :
               Cardinality(LinesOf(mi, ci, ti)) = 1

C2_Witness == status = 0 /\ pc = "done" /\ Len(out) = 960

\* The combination at place i of the order that has the material outermost,
\* the conductor in the middle and the thickness innermost.
TripleAt(i) ==
    LET nc == Len(CONDUCTOR_LIST)
        nt == Len(INSULATION_THICKNESS_LIST)
    IN  <<DIELECTRIC_LIST[((i - 1) \div (nc * nt)) + 1][1],
          CONDUCTOR_LIST[(((i - 1) \div nt) % nc) + 1][1],
          INSULATION_THICKNESS_LIST[((i - 1) % nt) + 1]>>

\* C3: at every point of the run the printed lines are a prefix of the
\* table order (material, then conductor, then thickness); the first line
\* is (ECTFE/Halar, AWG30, 0.006) and the last (Tefzel, AWG22, 0.060).
C3_TableOrder ==
    /\ \A i \in 1..Len(out) :
           <<out[i].name, out[i].gauge, out[i].thick>> = TripleAt(i)
    /\ Len(out) >= 1 =>
           <<out[1].name, out[1].gauge, out[1].thick>> = <<"ECTFE/Halar", "AWG30", 6>>
    /\ status # NoCode =>
           /\ Len(out) >= 1
           /\ <<out[Len(out)].name, out[Len(out)].gauge, out[Len(out)].thick>>
                  = <<"Tefzel", "AWG22", 60>>

\* The run has ended and the second material's block has begun at line 61.
C3_Witness ==
    /\ status = 0
    /\ Len(out) = 960
    /\ out[61].name = "PFA/Teflon" /\ out[61].gauge = "AWG30" /\ out[61].thick = 6
    /\ out[13].gauge = "AWG28" /\ out[13].thick = 6

\* C4: for every conductor and thickness of the tables both logarithm
\* arguments exceed 1, 1.3 (2t + D) > k D and 2 (2t + D) > k D, and every
\* printed pf/ft value is positive.
C4_ArgumentsAboveOne ==
    /\ \A ci \in 1..Len(CONDUCTOR_LIST), ti \in 1..Len(INSULATION_THICKNESS_LIST) :
           LET D == CONDUCTOR_LIST[ci][3]
               t == INSULATION_THICKNESS_LIST[ti]
               k == STRANDING_FACTOR
           IN  /\ k * D > 0
               /\ 1300 * (2 * t + D) > k * D
               /\ 2000 * (2 * t + D) > k * D
               /\ Log10[1300 * (2 * t + D), k * D] > 0
               /\ Ln[2000 * (2 * t + D), k * D] > 0
    /\ \A i \in Examined : out[i].cap_ft > 0 /\ out[i].cap2_ft > 0

\* All lines are out, with the combination of the smallest argument
\* (AWG22 at 0.006 inch) among them.
C4_Witness ==
    /\ Len(out) = 960
    /\ \E i \in 1..Len(out) :
           out[i].gauge = "AWG22" /\ out[i].thick = 6 /\ out[i].cap_ft > 0

\* C5: the run ends, with exit status 0, and it cannot end otherwise: when
\* the process has ended its status is 0 and all 960 lines are out.
C5_ExitsWithZero ==
    /\ <>(pc = "done" /\ status = 0)
    /\ [](status # NoCode => status = 0 /\ Len(out) = 960 /\ error = "none")
    /\ [](pc # "error")

C5_Witness == pc = "done" /\ status = 0 /\ exit_code = 0 /\ Len(out) = 960

\* C8: the pf/mm values are the pf/ft values divided by 304.8, to the last
\* place of the model's arithmetic, the printed ones are these to four
\* decimals, and MM_PER_FT stays 25.4 * 12.0 = 304.8.
C8_PerMillimetre ==
    /\ MM_PER_FT = 3048
    /\ Len(out) > 0 =>
           /\ capacitance_mm * 3048 <= capacitance * 1000
           /\ capacitance * 1000 < (capacitance_mm + 1) * 3048
           /\ capacitance2_mm * 3048 <= capacitance2 * 1000
           /\ capacitance2 * 1000 < (capacitance2_mm + 1) * 3048
           /\ out[Len(out)].cap_mm = Round(capacitance_mm, 100)
           /\ out[Len(out)].cap2_mm = Round(capacitance2_mm, 100)

\* The first line is out: 0.0424 and 0.0499 pf/mm.
C8_Witness ==
    /\ Len(out) = 1
    /\ capacitance > 0 /\ capacitance_mm > 0
    /\ out[1].cap_mm = 424 /\ out[1].cap2_mm = 499

\* The data model invariants of the tables.
TablesInvariant ==
    /\ Len(DIELECTRIC_LIST) = 16
    /\ Len(CONDUCTOR_LIST) = 5
    /\ Len(INSULATION_THICKNESS_LIST) = 12
    /\ \A i, j \in 1..Len(DIELECTRIC_LIST) :
           i # j => DIELECTRIC_LIST[i][1] # DIELECTRIC_LIST[j][1]
    /\ \A i \in 1..Len(DIELECTRIC_LIST) : DIELECTRIC_LIST[i][2] > 0
    /\ \A i \in 1..Len(CONDUCTOR_LIST) : CONDUCTOR_LIST[i][3] > 0
    /\ \A i \in 1..Len(INSULATION_THICKNESS_LIST) : INSULATION_THICKNESS_LIST[i] > 0
    /\ STRANDING_FACTOR > 0 /\ STRANDING_FACTOR <= 1000
    /\ STRANDING_FACTOR \in {1000, 939, 970, 980, 985, 988}

\* C9: the tables satisfy the data model invariants in every state, and no
\* step changes them.
C9_TablesInvariantAndImmutable ==
    /\ []TablesInvariant
    /\ [][UNCHANGED <<STRANDING_FACTOR, DIELECTRIC_LIST, CONDUCTOR_LIST,
                      INSULATION_THICKNESS_LIST>>]_vars

\* The whole run has read the tables.
C9_Witness ==
    /\ pc = "done"
    /\ Len(out) = 960
    /\ DIELECTRIC_LIST[16][1] = "Tefzel"
    /\ STRANDING_FACTOR = 939

\* The material, conductor and thickness the newest line was printed for.
LastD == DielectricOf(out[Len(out)].name)
LastDiameter == DiameterOf(out[Len(out)].gauge)
LastT == out[Len(out)].thick

\* C7 (as amended): for fixed material, conductor and thickness both
\* formulas are strictly monotonic in the stranding factor over the allowed
\* set, and increasing: a larger factor makes the logarithm's argument
\* smaller and the capacitance larger, so no two factors give one value.
C7_IncreasingInStrandingFactor ==
    Len(out) > 0 =>
        \A k2 \in {939, 970, 980, 985, 988, 1000} :
            /\ k2 > STRANDING_FACTOR =>
                   /\ GeneralCable(LastD, LastDiameter, LastT, k2) > capacitance
                   /\ HowardJohnson(LastD, LastDiameter, LastT, k2) > capacitance2
            /\ k2 < STRANDING_FACTOR =>
                   /\ GeneralCable(LastD, LastDiameter, LastT, k2) < capacitance
                   /\ HowardJohnson(LastD, LastDiameter, LastT, k2) < capacitance2

\* C7 as stated: the capacitance decreases as the stranding factor grows.
C7_DecreasingInStrandingFactor ==
    Len(out) > 0 =>
        \A k2 \in {939, 970, 980, 985, 988, 1000} :
            k2 > STRANDING_FACTOR =>
                /\ GeneralCable(LastD, LastDiameter, LastT, k2) < capacitance
                /\ HowardJohnson(LastD, LastDiameter, LastT, k2) < capacitance2

\* A whole run with a factor that has smaller and larger ones beside it.
C7_Witness ==
    /\ STRANDING_FACTOR = 985
    /\ Len(out) = 960
    /\ capacitance > 0 /\ capacitance2 > 0

\* What utp.py raises for conductor ci and thickness ti: k D = 0 or a
\* logarithm of 0 (argument 1) divides by zero, an argument <= 0 is outside
\* the logarithm's domain.
RaisesAt(ci, ti) ==
    LET D == CONDUCTOR_LIST[ci][3]
        t == INSULATION_THICKNESS_LIST[ti]
        den == STRANDING_FACTOR * D
        n1 == 1300 * (2 * t + D)
        n2 == 2000 * (2 * t + D)
    IN  \/ den = 0
        \/ n1 = 0
        \/ (n1 < 0) # (den < 0)
        \/ n1 = den
        \/ n2 = den

\* The General Cable argument lies strictly between 0 and 1.
BelowOneAt(ci, ti) ==
    LET D == CONDUCTOR_LIST[ci][3]
        t == INSULATION_THICKNESS_LIST[ti]
        den == STRANDING_FACTOR * D
        n1 == 1300 * (2 * t + D)
    IN  /\ den # 0 /\ n1 # 0
        /\ (n1 < 0) = (den < 0)
        /\ Abs(n1) < Abs(den)

\* A combination the claim speaks of: a non-positive thickness or diameter
\* or a stranding factor >= 1, and a logarithm argument <= 1 or undefined.
EditedFaultAt(ci, ti) ==
    LET D == CONDUCTOR_LIST[ci][3]
        t == INSULATION_THICKNESS_LIST[ti]
        den == STRANDING_FACTOR * D
        n2 == 2000 * (2 * t + D)
    IN  /\ t <= 0 \/ D <= 0 \/ STRANDING_FACTOR >= 1000
        /\ \/ RaisesAt(ci, ti)
           \/ BelowOneAt(ci, ti)
           \/ Abs(n2) < Abs(den)

\* The lines printed for conductor ci and thickness ti.
LinesFor(ci, ti) ==
    {i \in 1..Len(out) :
        /\ out[i].gauge = CONDUCTOR_LIST[ci][1]
        /\ out[i].thick = INSULATION_THICKNESS_LIST[ti]}

Combinations == (1..Len(CONDUCTOR_LIST)) \X (1..Len(INSULATION_THICKNESS_LIST))

\* C6 as stated: no line is printed for a combination of an edited table
\* with a logarithm argument <= 1, and with such a combination in the
\* tables the run does not exit with status 0.
C6_FailsFastOnEveryFault ==
    \A ct \in Combinations :
        EditedFaultAt(ct[1], ct[2]) =>
            /\ LinesFor(ct[1], ct[2]) = {}
            /\ status # 0

\* C6 (as amended): the run fails fast exactly where Python raises: at a
\* combination with k D = 0, a logarithm argument <= 0 or a logarithm equal
\* to 0 it ends with the uncaught ZeroDivisionError or ValueError and
\* status 1, prints no line for it and never exits with 0.  A combination
\* whose argument lies strictly between 0 and 1 raises nothing: its line
\* is printed, with a negative capacitance.
C6_FailsFastWherePythonRaises ==
    /\ \A ct \in Combinations :
           /\ RaisesAt(ct[1], ct[2]) =>
                  /\ LinesFor(ct[1], ct[2]) = {}
                  /\ status # 0
                  /\ pc \notin {"exit", "sysexit", "done"}
           /\ BelowOneAt(ct[1], ct[2]) /\ ~RaisesAt(ct[1], ct[2]) =>
                  \A i \in LinesFor(ct[1], ct[2]) : out[i].cap_ft < 0
    /\ pc = "error" =>
           /\ RaisesAt(conductor, thickness)
           /\ error \in {"ZeroDivisionError", "ValueError"}
           /\ status = 1
           /\ exit_code = NoCode
    /\ (pc = "done" /\ \E ct \in Combinations : BelowOneAt(ct[1], ct[2])) =>
           \E i \in 1..Len(out) : out[i].cap_ft < 0

\* The run ended in an exception after lines had been printed.
C6_Witness ==
    /\ pc = "error"
    /\ error = "ValueError"
    /\ Len(out) > 0
    /\ status = 1

\* C10: a second run of the command prints what the first one printed,
\* line for line, whatever its command line holds.
C10_SecondRunPrintsTheSame ==
    run >= 2 =>
        /\ Len(out) <= Len(prev_out)
        /\ out = SubSeq(prev_out, 1, Len(out))
        /\ status # NoCode => out = prev_out /\ status = 0

\* Two runs have ended, the second one with an argument on its command line.
C10_Witness ==
    /\ run = 2
    /\ pc = "done"
    /\ argv # <<>>
    /\ Len(out) = 960
    /\ out = prev_out

====
